---- MODULE Spec2Model ----
(***************************************************************************)
(* hl: a streaming line highlighter (src/src/main.rs).                     *)
(*                                                                         *)
(* Text is a sequence of one-character strings.  The byte 0x1B is written  *)
(* "ESC".  The standard output is the sequence of bytes the program has    *)
(* handed to its stdout handle, in order.                                  *)
(***************************************************************************)
EXTENDS Integers, Sequences, FiniteSets, TLC

\* ------------------------------------------------------------------ bounds

\* Longest standard input (bytes) of the line-processing specification.
MaxInput == 5
\* Most -f FIELD:COLOR arguments of the bindings specification.
MaxBindings == 2
\* Longest standard input (bytes) of the bindings specification.
MaxShortInput == 3
\* Longest generated tail after "fixed(" / "rgb(" of the colour specification.
MaxBody == 6

\* ------------------------------------------------- str helpers (Rust std)

ESC == "ESC"
NL == "\n"
Digit == {"0", "1", "2", "3", "4", "5", "6", "7", "8", "9"}
Whitespace == {" ", NL}

\* All texts over alphabet A of length at most n.
StrUpTo(A, n) == UNION {[1..k -> A] : k \in 0..n}

starts_with(s, p) == Len(p) <= Len(s) /\ SubSeq(s, 1, Len(p)) = p

ends_with(s, p) == Len(p) <= Len(s) /\ SubSeq(s, Len(s) - Len(p) + 1, Len(s)) = p

strip_prefix(s, p) == SubSeq(s, Len(p) + 1, Len(s))

strip_suffix(s, p) == SubSeq(s, 1, Len(s) - Len(p))

\* p occurs in s at (1-based) position k.
MatchAt(s, p, k) == k + Len(p) - 1 <= Len(s) /\ SubSeq(s, k, k + Len(p) - 1) = p

\* Position of the first occurrence of p in s, 0 when there is none.
find(s, p) ==
    IF \E k \in 1..(Len(s) + 1) : MatchAt(s, p, k)
    THEN CHOOSE k \in 1..(Len(s) + 1) :
            MatchAt(s, p, k) /\ \A j \in 1..(k - 1) : ~MatchAt(s, p, j)
    ELSE 0

\* Position of the last occurrence of p in s, 0 when there is none.
rfind(s, p) ==
    IF \E k \in 1..(Len(s) + 1) : MatchAt(s, p, k)
    THEN CHOOSE k \in 1..(Len(s) + 1) :
            MatchAt(s, p, k) /\ \A j \in (k + 1)..(Len(s) + 1) : ~MatchAt(s, p, j)
    ELSE 0

\* str::rsplit_once: a slip that cuts at the LAST occurrence.
rsplit_once(s, p) ==
    LET k == rfind(s, p)
    IN  IF k = 0 THEN [found |-> FALSE, left |-> <<>>, right |-> <<>>]
        ELSE [found |-> TRUE, left |-> SubSeq(s, 1, k - 1),
              right |-> SubSeq(s, k + Len(p), Len(s))]

\* unwrap_or(("", buf)): a slip that recovers from an absent pattern.
split_once_or_whole(s, p) ==
    LET k == find(s, p)
    IN  IF k = 0 THEN [found |-> TRUE, left |-> <<>>, right |-> s]
        ELSE [found |-> TRUE, left |-> SubSeq(s, 1, k - 1),
              right |-> SubSeq(s, k + Len(p), Len(s))]

\* str::split_once: cut at the first occurrence of p, which is dropped.
split_once(s, p) ==
    LET k == find(s, p)
    IN  IF k = 0 THEN [found |-> FALSE, left |-> <<>>, right |-> <<>>]
        ELSE [found |-> TRUE, left |-> SubSeq(s, 1, k - 1),
              right |-> SubSeq(s, k + Len(p), Len(s))]

\* str::split (exclusive): a slip that drops the delimiters.
RECURSIVE split_exclusive(_, _)
split_exclusive(s, d) ==
    IF d = <<>> THEN << <<>> >> \o [k \in 1..Len(s) |-> <<s[k]>>] \o << <<>> >>
    ELSE LET k == find(s, d)
         IN  IF k = 0 THEN <<s>>
             ELSE <<SubSeq(s, 1, k - 1)>>
                    \o split_exclusive(SubSeq(s, k + Len(d), Len(s)), d)

\* str::split_inclusive: every segment keeps its terminating delimiter; no
\* trailing empty segment.  The empty pattern matches at every character
\* boundary, the first match being at offset 0.
RECURSIVE split_inclusive(_, _)
split_inclusive(s, d) ==
    IF d = <<>> THEN << <<>> >> \o [k \in 1..Len(s) |-> <<s[k]>>]
    ELSE IF s = <<>> THEN <<>>
    ELSE LET k == find(s, d)
         IN  IF k = 0 THEN <<s>>
             ELSE <<SubSeq(s, 1, k + Len(d) - 1)>>
                    \o split_inclusive(SubSeq(s, k + Len(d), Len(s)), d)

\* str::trim: drop leading and trailing whitespace.
RECURSIVE trim(_)
trim(s) ==
    IF s = <<>> THEN s
    ELSE IF s[1] \in Whitespace THEN trim(Tail(s))
    ELSE IF s[Len(s)] \in Whitespace THEN trim(SubSeq(s, 1, Len(s) - 1))
    ELSE s

\* Number of occurrences of the character c in s (str::matches(c).count()).
matches_count(s, c) == Cardinality({k \in 1..Len(s) : s[k] = c})

DigitVal(c) ==
    CASE c = "0" -> 0 [] c = "1" -> 1 [] c = "2" -> 2 [] c = "3" -> 3
      [] c = "4" -> 4 [] c = "5" -> 5 [] c = "6" -> 6 [] c = "7" -> 7
      [] c = "8" -> 8 [] OTHER -> 9

DigitChar(n) ==
    CASE n = 0 -> "0" [] n = 1 -> "1" [] n = 2 -> "2" [] n = 3 -> "3"
      [] n = 4 -> "4" [] n = 5 -> "5" [] n = 6 -> "6" [] n = 7 -> "7"
      [] n = 8 -> "8" [] OTHER -> "9"

RECURSIVE DigitsVal(_)
DigitsVal(s) ==
    IF s = <<>> THEN 0
    ELSE 10 * DigitsVal(SubSeq(s, 1, Len(s) - 1)) + DigitVal(s[Len(s)])

AllDigits(s) == s # <<>> /\ \A k \in 1..Len(s) : s[k] \in Digit

\* Display of an unsigned integer: decimal, no leading zeros.
RECURSIVE to_string(_)
to_string(n) ==
    IF n < 10 THEN <<DigitChar(n)>>
    ELSE to_string(n \div 10) \o <<DigitChar(n % 10)>>

\* <usize as FromStr>: an optional "+", then one or more decimal digits.
\* (The texts of this model have at most nine digits: no overflow.)
parse_usize(s) ==
    LET body == IF s # <<>> /\ s[1] = "+" THEN Tail(s) ELSE s
    IN  IF AllDigits(body) THEN [ok |-> TRUE, val |-> DigitsVal(body)]
        ELSE [ok |-> FALSE, val |-> 0]

\* <isize as FromStr>: an optional "+" or "-", then one or more digits.
parse_isize(s) ==
    LET neg == s # <<>> /\ s[1] = "-"
        body == IF s # <<>> /\ s[1] \in {"+", "-"} THEN Tail(s) ELSE s
    IN  IF AllDigits(body)
        THEN [ok |-> TRUE, val |-> IF neg THEN 0 - DigitsVal(body) ELSE DigitsVal(body)]
        ELSE [ok |-> FALSE, val |-> 0]

\* <ByteSize as FromStr> on the texts of this model (digits, blanks, ":",
\* no unit letter and no "."): a bare byte count parses to its value, every
\* other text is an error.
parse_bytesize(s) == parse_usize(s)

\* ------------------------------------------------------------ Color parser

T_default == <<"d", "e", "f", "a", "u", "l", "t">>
T_black == <<"b", "l", "a", "c", "k">>
T_red == <<"r", "e", "d">>
T_green == <<"g", "r", "e", "e", "n">>
T_yellow == <<"y", "e", "l", "l", "o", "w">>
T_blue == <<"b", "l", "u", "e">>
T_magenta == <<"m", "a", "g", "e", "n", "t", "a">>
T_cyan == <<"c", "y", "a", "n">>
T_white == <<"w", "h", "i", "t", "e">>
T_size == <<"s", "i", "z", "e">>
T_fixed == <<"f", "i", "x", "e", "d", "(">>
T_rgb == <<"r", "g", "b", "(">>

\* enum Color { Ansi(String), Size }
Ansi(f) == [kind |-> "Ansi", ansi |-> f]
Size == [kind |-> "Size", ansi |-> <<>>]

ColorOk(c) == [ok |-> TRUE, val |-> c, err |-> "none"]
\* Err(e): no value comes with it.
NoValue == [kind |-> "None", ansi |-> <<>>]
ParseErr(e) == [ok |-> FALSE, val |-> NoValue, err |-> e]

\* The eight-colour digit of a colour name, "" for any other text.
NamedDigit(input) ==
    CASE input = T_default -> "9" [] input = T_black -> "0"
      [] input = T_red -> "1" [] input = T_green -> "2"
      [] input = T_yellow -> "3" [] input = T_blue -> "4"
      [] input = T_magenta -> "5" [] input = T_cyan -> "6"
      [] input = T_white -> "7" [] OTHER -> ""

\* A slip: the fixed arm, too, counts its arguments, and a text with a comma
\* falls through to UnknownColor.
ColorFromStrCounted(input) ==
    LET f0 == <<ESC, "[", "3">>
    IN  IF NamedDigit(input) # ""
        THEN ColorOk(Ansi(f0 \o <<NamedDigit(input)>> \o <<"m">>))
        ELSE IF /\ starts_with(input, T_fixed)
                /\ matches_count(input, ",") = 0
                /\ ends_with(input, <<")">>)
        THEN LET in_par == strip_suffix(strip_prefix(input, T_fixed), <<")">>)
                 num == parse_usize(in_par)
             IN  IF ~num.ok THEN ParseErr("IntParseError")
                 ELSE ColorOk(Ansi(f0 \o <<"8", ";", "5", ";">>
                                      \o to_string(num.val) \o <<"m">>))
        ELSE IF /\ starts_with(input, T_rgb)
                /\ matches_count(input, ",") = 2
                /\ ends_with(input, <<")">>)
        THEN LET in_par == strip_suffix(strip_prefix(input, T_rgb), <<")">>)
                 k1 == find(in_par, <<",">>)
                 tl == SubSeq(in_par, k1 + 1, Len(in_par))
                 k2 == find(tl, <<",">>)
                 red == parse_usize(SubSeq(in_par, 1, k1 - 1))
                 green == parse_usize(SubSeq(tl, 1, k2 - 1))
                 blue == parse_usize(SubSeq(tl, k2 + 1, Len(tl)))
             IN  IF ~red.ok \/ ~green.ok \/ ~blue.ok THEN ParseErr("IntParseError")
                 ELSE ColorOk(Ansi(f0 \o <<"8", ";", "2", ";">> \o to_string(red.val)
                                      \o <<";">> \o to_string(green.val)
                                      \o <<";">> \o to_string(blue.val) \o <<"m">>))
        ELSE IF input = T_size THEN ColorOk(Size)
        ELSE ParseErr("UnknownColor")

\* impl FromStr for Color
ColorFromStr(input) ==
    LET f0 == <<ESC, "[", "3">>
    IN  IF NamedDigit(input) # ""
        THEN ColorOk(Ansi(f0 \o <<NamedDigit(input)>> \o <<"m">>))
        ELSE IF starts_with(input, T_fixed) /\ ends_with(input, <<")">>)
        THEN LET in_par == strip_suffix(strip_prefix(input, T_fixed), <<")">>)
                 num == parse_usize(in_par)
             IN  IF ~num.ok THEN ParseErr("IntParseError")
                 ELSE ColorOk(Ansi(f0 \o <<"8", ";", "5", ";">>
                                      \o to_string(num.val) \o <<"m">>))
        ELSE IF /\ starts_with(input, T_rgb)
                /\ matches_count(input, ",") = 2
                /\ ends_with(input, <<")">>)
        THEN LET in_par == strip_suffix(strip_prefix(input, T_rgb), <<")">>)
                 k1 == find(in_par, <<",">>)
                 tl == SubSeq(in_par, k1 + 1, Len(in_par))
                 k2 == find(tl, <<",">>)
                 red == parse_usize(SubSeq(in_par, 1, k1 - 1))
                 green == parse_usize(SubSeq(tl, 1, k2 - 1))
                 blue == parse_usize(SubSeq(tl, k2 + 1, Len(tl)))
             IN  IF ~red.ok \/ ~green.ok \/ ~blue.ok THEN ParseErr("IntParseError")
                 ELSE ColorOk(Ansi(f0 \o <<"8", ";", "2", ";">> \o to_string(red.val)
                                      \o <<";">> \o to_string(green.val)
                                      \o <<";">> \o to_string(blue.val) \o <<"m">>))
        ELSE IF input = T_size THEN ColorOk(Size)
        ELSE ParseErr("UnknownColor")

\* impl FromStr for FieldColor: cut at the first ":", the field half is an
\* isize, the colour half a Color; the field half is parsed first.
FieldColorFromStr(input) ==
    LET cut == find(input, <<":">>)
        field == parse_isize(SubSeq(input, 1, cut - 1))
        color == ColorFromStr(SubSeq(input, cut + 1, Len(input)))
    IN  IF cut = 0 THEN ParseErr("MissingColonField")
        ELSE IF ~field.ok THEN ParseErr("IntParseError")
        ELSE IF ~color.ok THEN ParseErr(color.err)
        ELSE [ok |-> TRUE, val |-> [field |-> field.val, color |-> color.val],
              err |-> "none"]

\* ------------------------------------------------------------------- state

VARIABLES
    args,           \* the -f FIELD:COLOR arguments, as texts (main.rs:138)
    delimeter,      \* Options.delimeter (main.rs:143)
    skip,           \* Options.skip: [some, pat] (main.rs:146)
    yellow_size,    \* Options.yellow_size, in bytes (main.rs:150)
    red_size,       \* Options.red_size, in bytes (main.rs:154)
    fields,         \* Options.fields: the bindings, in argument order (main.rs:140)
    stdin,          \* the bytes of standard input, all of them (main.rs:169)
    off,            \* how many of them read_line has read (main.rs:173)
    buf,            \* the line read_line returned, the first `buf` (main.rs:172)
    rest,           \* the line after the skip, the shadowing `buf` (main.rs:180)
    split,          \* the inclusive split of rest (main.rs:189)
    i,              \* position in split of the next field (main.rs:191)
    stdout,         \* the bytes written to standard output so far (main.rs:170)
    mark,           \* Len(stdout) when the current line was read (main.rs:172)
    pc,             \* where main stands (main.rs:158-215)
    result,         \* "running", or how the process ended (main.rs:158)
    err             \* the error the process ended with, "none" if none

vars == <<args, delimeter, skip, yellow_size, red_size, fields, stdin, off, buf,
          rest, split, i, stdout, mark, pc, result, err>>

conf == <<args, delimeter, skip, yellow_size, red_size, stdin>>

\* The bytes of standard input not yet read.
Unread == SubSeq(stdin, off + 1, Len(stdin))

None == [some |-> FALSE, pat |-> <<>>]
Some(p) == [some |-> TRUE, pat |-> p]

default_color == ColorFromStr(T_default).val
green_color == ColorFromStr(T_green).val
yellow_color == ColorFromStr(T_yellow).val
red_color == ColorFromStr(T_red).val

\* The disposition of SIGPIPE if reset_sigpipe were not called: the Rust
\* runtime ignores the signal and a write to a closed pipe returns EPIPE.
sigpipe_ignored == "SIG_IGN"

\* The disposition of SIGPIPE once reset_sigpipe has run.
reset_sigpipe == "SIG_DFL"

\* A slip: the LAST binding of the position wins.
FindLast(fs, pos) ==
    LET M == {k \in 1..Len(fs) : fs[k].field >= 0 /\ fs[k].field = pos}
    IN  IF M = {} THEN 0 ELSE CHOOSE k \in M : \A j \in M : j <= k

\* A slip: the TODO done, a negative index counts from the end of the line.
FindFromEnd(fs, pos) ==
    LET M == {k \in 1..Len(fs) :
                \/ fs[k].field = pos
                \/ fs[k].field < 0 /\ Len(split) + fs[k].field = pos}
    IN  IF M = {} THEN 0 ELSE CHOOSE k \in M : \A j \in M : k <= j

\* options.fields.iter().find(|fc| fc.field >= 0 && fc.field as usize == i):
\* the index in fs of the first such binding, 0 when there is none.
FindBinding(fs, pos) ==
    LET M == {k \in 1..Len(fs) : fs[k].field >= 0 /\ fs[k].field = pos}
    IN  IF M = {} THEN 0 ELSE CHOOSE k \in M : \A j \in M : k <= j

\* A slip: >= for >.
SizeColorInclusive(size, red, yellow) ==
    IF size >= red THEN red_color
    ELSE IF size >= yellow THEN yellow_color
    ELSE green_color

\* The colour of a size: red above red_size, else yellow above yellow_size.
SizeColor(size, red, yellow) ==
    IF size > red THEN red_color
    ELSE IF size > yellow THEN yellow_color
    ELSE green_color

\* A slip: the reset is forgotten.
RenderNoReset(color, text) == color.ansi \o text

\* A slip: the trimmed text is written.
RenderTrimmed(color, text) == color.ansi \o trim(text) \o default_color.ansi

\* write!(stdout, "{}{}{}", color, text, default_color)
Render(color, text) == color.ansi \o text \o default_color.ansi

\* ----------------------------------------------------------------- actions

\* options().run(): every -f argument goes through FieldColor::from_str; the
\* first that fails ends the process before main's loop.
RunOptions ==
    /\ pc = "options" /\ result = "running"
    /\ LET parsed == [k \in 1..Len(args) |-> FieldColorFromStr(args[k])]
           bad == {k \in 1..Len(args) : ~parsed[k].ok}
       IN  IF bad = {}
           THEN /\ fields' = [k \in 1..Len(args) |-> parsed[k].val]
                /\ pc' = "read"
                /\ UNCHANGED <<result, err>>
           ELSE /\ result' = "UsageErr"
                /\ err' = parsed[CHOOSE k \in bad : \A j \in bad : k <= j].err
                /\ UNCHANGED <<fields, pc>>
    /\ UNCHANGED <<conf, off, buf, rest, split, i, stdout, mark>>

\* stdin.read_line(&mut buf) with n > 0: through the next "\n", or to the end.
ReadLine ==
    /\ pc = "read" /\ result = "running" /\ Unread # <<>>
    /\ LET k == find(Unread, <<NL>>)
           n == IF k = 0 THEN Len(Unread) ELSE k
       IN  /\ buf' = SubSeq(Unread, 1, n)
           /\ off' = off + n
    /\ mark' = Len(stdout)
    /\ rest' = <<>> /\ split' = <<>> /\ i' = 0
    /\ pc' = "skip"
    /\ UNCHANGED <<conf, fields, stdout, result, err>>

\* read_line returns 0: break Ok(()).
Eof ==
    /\ pc = "read" /\ result = "running" /\ Unread = <<>>
    /\ result' = "Ok"
    /\ UNCHANGED <<conf, fields, off, buf, rest, split, i, stdout, mark, pc, err>>

\* No skip pattern: the line is split as it is.
SkipNone ==
    /\ pc = "skip" /\ result = "running" /\ ~skip.some
    /\ rest' = buf
    /\ split' = split_inclusive(buf, delimeter)
    /\ i' = 0
    /\ pc' = "field"
    /\ UNCHANGED <<conf, fields, off, buf, stdout, mark, result, err>>

\* split_once(pat) is None: the ? returns "skip not found" from main.
SkipNotFound ==
    /\ pc = "skip" /\ result = "running" /\ skip.some
    /\ ~split_once(buf, skip.pat).found
    /\ result' = "Err"
    /\ err' = "skip not found"
    /\ UNCHANGED <<conf, fields, off, buf, rest, split, i, stdout, mark, pc>>

\* stdout.write_all(left)
SkipWriteLeft ==
    /\ pc = "skip" /\ result = "running" /\ skip.some
    /\ split_once(buf, skip.pat).found
    /\ stdout' = stdout \o split_once(buf, skip.pat).left
    /\ pc' = "skip_pat"
    /\ UNCHANGED <<conf, fields, off, buf, rest, split, i, mark, result, err>>

\* stdout.write_all(pat); right becomes the line; the line is split.
SkipWritePat ==
    /\ pc = "skip_pat" /\ result = "running"
    /\ stdout' = stdout \o skip.pat
    /\ rest' = split_once(buf, skip.pat).right
    /\ split' = split_inclusive(rest', delimeter)
    /\ i' = 0
    /\ pc' = "field"
    /\ UNCHANGED <<conf, fields, off, buf, mark, result, err>>

AtField == pc = "field" /\ result = "running" /\ i < Len(split)

\* The binding found for the field at hand is an Ansi colour.
FieldAnsi ==
    /\ AtField
    /\ LET k == FindBinding(fields, i)
       IN  /\ k # 0 /\ fields[k].color.kind = "Ansi"
           /\ stdout' = stdout \o Render(fields[k].color, split[i + 1])
    /\ i' = i + 1
    /\ UNCHANGED <<conf, fields, off, buf, rest, split, mark, pc, result, err>>

\* The binding found is Size and the trimmed text is a byte count.
FieldSize ==
    /\ AtField
    /\ LET k == FindBinding(fields, i)
           size == parse_bytesize(trim(split[i + 1]))
       IN  /\ k # 0 /\ fields[k].color.kind = "Size"
           /\ size.ok
           /\ stdout' = stdout \o Render(SizeColor(size.val, red_size, yellow_size),
                                         split[i + 1])
    /\ i' = i + 1
    /\ UNCHANGED <<conf, fields, off, buf, rest, split, mark, pc, result, err>>

\* The binding found is Size and the trimmed text does not parse: the ?
\* returns the error from main, before anything of the field is written.
FieldSizeErr ==
    /\ AtField
    /\ LET k == FindBinding(fields, i)
       IN  /\ k # 0 /\ fields[k].color.kind = "Size"
           /\ ~parse_bytesize(trim(split[i + 1])).ok
    /\ result' = "Err"
    /\ err' = "size parse"
    /\ UNCHANGED <<conf, fields, off, buf, rest, split, i, stdout, mark, pc>>

\* No binding for the position: stdout.write_all(text).
FieldPlain ==
    /\ AtField
    /\ FindBinding(fields, i) = 0
    /\ stdout' = stdout \o split[i + 1]
    /\ i' = i + 1
    /\ UNCHANGED <<conf, fields, off, buf, rest, split, mark, pc, result, err>>

\* The for loop is over: back to the top of the loop.
LineDone ==
    /\ pc = "field" /\ result = "running" /\ i = Len(split)
    /\ pc' = "read"
    /\ UNCHANGED <<conf, fields, off, buf, rest, split, i, stdout, mark, result, err>>

\* The bytes the next write call would write, <<>> when main is not at a
\* write (or the write is empty and makes no system call).
NextWrite ==
    IF result # "running" THEN <<>>
    ELSE IF pc = "skip" /\ skip.some /\ split_once(buf, skip.pat).found
    THEN split_once(buf, skip.pat).left
    ELSE IF pc = "skip_pat" THEN skip.pat
    ELSE IF pc = "field" /\ i < Len(split)
    THEN LET k == FindBinding(fields, i)
         IN  IF k = 0 THEN split[i + 1]
             ELSE IF fields[k].color.kind = "Ansi" THEN Render(fields[k].color, split[i + 1])
             ELSE IF parse_bytesize(trim(split[i + 1])).ok THEN <<ESC>>
             ELSE <<>>
    ELSE <<>>

\* The reader of standard output has gone and the write reaches the closed
\* pipe.  With SIGPIPE at its default the kernel ends the process in the
\* write; ignored, the write returns EPIPE and the ? returns it from main.
\* (stdout is line buffered: the real write happens at a flush.  Letting any
\* write call fail covers every flush.)
BrokenPipe ==
    /\ NextWrite # <<>>
    /\ IF reset_sigpipe = "SIG_DFL"
       THEN result' = "SigPipe" /\ err' = err
       ELSE result' = "Err" /\ err' = "Broken pipe"
    /\ UNCHANGED <<conf, fields, off, buf, rest, split, i, stdout, mark, pc>>

Next ==
    \/ RunOptions
    \/ ReadLine
    \/ Eof
    \/ SkipNone
    \/ SkipNotFound
    \/ SkipWriteLeft
    \/ SkipWritePat
    \/ FieldAnsi
    \/ FieldSize
    \/ FieldSizeErr
    \/ FieldPlain
    \/ LineDone
    \/ BrokenPipe

\* ------------------------------------------------------------ initial states

Start ==
    /\ fields = <<>> /\ off = 0 /\ buf = <<>> /\ rest = <<>> /\ split = <<>> /\ i = 0
    /\ stdout = <<>> /\ mark = 0 /\ pc = "options"
    /\ result = "running" /\ err = "none"

Arg(field, color) == field \o <<":">> \o color

Alphabet == {"1", " ", ":", NL}
ArgPool == {Arg(<<"0">>, T_red), Arg(<<"1">>, T_red), Arg(<<"0">>, T_size),
            Arg(<<"1">>, T_size), Arg(<<"-", "1">>, T_red)}
Delims == {<<" ">>, <<":">>, <<>>}
Skips == {None, Some(<<":">>)}

\* Line processing: every input over the alphabet up to MaxInput bytes, with
\* every delimiter and skip above, under these lists of bindings.
BindingLists ==
    {<<>>,
     <<Arg(<<"0">>, T_red)>>,
     <<Arg(<<"1">>, T_red)>>,
     <<Arg(<<"-", "1">>, T_red)>>,
     <<Arg(<<"0">>, T_size), Arg(<<"1">>, T_red)>>,
     <<Arg(<<"1">>, T_size), Arg(<<"0">>, T_red)>>,
     <<Arg(<<"0">>, T_red), Arg(<<"0">>, T_size)>>,
     <<Arg(<<"-", "1">>, T_red), Arg(<<"1">>, T_size)>>}

Init ==
    /\ Start
    /\ args \in BindingLists
    /\ delimeter \in Delims
    /\ skip \in Skips
    /\ red_size = 11 /\ yellow_size = 1
    /\ stdin \in StrUpTo(Alphabet, MaxInput)

\* Bindings: every list of up to MaxBindings bindings from the pool, on
\* every input up to MaxShortInput bytes.
InitBindings ==
    /\ Start
    /\ args \in StrUpTo(ArgPool, MaxBindings)
    /\ delimeter \in {<<" ">>, <<":">>}
    /\ skip \in Skips
    /\ red_size = 11 /\ yellow_size = 1
    /\ stdin \in StrUpTo(Alphabet, MaxShortInput)

SpecBindings == InitBindings /\ [][Next]_vars

Spec == Init /\ [][Next]_vars

\* ByteSize::mb: megabytes of 1000 * 1000 bytes.
ByteSize_mb(n) == n * 1000 * 1000
DefaultYellowMB == 20
DefaultRedMB == 100

\* Size colouring: the default thresholds, in both orders, and equal ones;
\* sizes on and next to the thresholds, written in decimal.
Thresholds ==
    {<<ByteSize_mb(DefaultRedMB), ByteSize_mb(DefaultYellowMB)>>,
     <<ByteSize_mb(DefaultYellowMB), ByteSize_mb(DefaultRedMB)>>,
     <<ByteSize_mb(DefaultYellowMB), ByteSize_mb(DefaultYellowMB)>>,
     <<0, 0>>}
SizesAround(t) == {0, 1, t[1], t[1] + 1, t[2], t[2] + 1}

InitSize ==
    /\ Start
    /\ args \in {<<Arg(<<"0">>, T_size)>>,
                 <<Arg(<<"1">>, T_size), Arg(<<"0">>, T_red)>>,
                 <<Arg(<<"0">>, T_size), Arg(<<"0">>, T_red)>>}
    /\ delimeter = <<" ">>
    /\ skip \in Skips
    /\ \E t \in Thresholds :
         /\ red_size = t[1] /\ yellow_size = t[2]
         /\ \E s \in SizesAround(t) :
              \E pre \in {<<>>, <<"1", " ">>, <<":">>, <<":", " ">>} :
                 \E post \in {<<NL>>, <<" ", NL>>, <<":", NL>>} :
                    stdin = pre \o to_string(s) \o post

SpecSize == InitSize /\ [][Next]_vars

\* Colour parsing: one binding for field 0 whose colour text is a name, or
\* "fixed(" or "rgb(" and any tail over BodyAlphabet, or one of OtherTexts.
BodyAlphabet == {"1", ",", ")", "x"}
Names == {T_default, T_black, T_red, T_green, T_yellow, T_blue, T_magenta,
          T_cyan, T_white, T_size}
OtherTexts ==
    {<<>>, <<"R", "e", "d">>, <<"r", "e", "d", " ">>, <<"f", "i", "x", "e", "d">>,
     <<"r", "g", "b">>, <<"r", "g", "b", "(", "1", ",", "2", ",", "3", ",", "4", ")">>,
     <<"r", "g", "b", "(", "1", "0", ",", "0", "2", ",", "+", "3", ")">>,
     <<"r", "g", "b", "(", "1", ",", "-", "2", ",", "3", ")">>,
     <<"f", "i", "x", "e", "d", "(", "2", "0", "0", ")">>,
     <<"f", "i", "x", "e", "d", "(", "+", "7", ")">>,
     <<"f", "i", "x", "e", "d", "(", "0", "0", "7", ")">>,
     <<"f", "i", "x", "e", "d", "(", "-", "1", ")">>,
     <<"f", "i", "x", "e", "d", "(", " ", "1", ")">>,
     <<"F", "i", "x", "e", "d", "(", "1", ")">>,
     T_fixed \o <<"1", ",", "2", ")">>, T_fixed \o <<"1", ")", ")">>,
     T_rgb \o <<"1", ",", "2", ")">>, T_rgb \o <<"1", ",", "2", ",", "3">>,
     T_rgb \o <<"1", ",", "2", ",", "3", ")">>}
ColorTexts ==
    Names \cup OtherTexts
      \cup {head \o body : head \in {T_fixed, T_rgb},
                           body \in StrUpTo(BodyAlphabet, MaxBody)}

InitColor ==
    /\ Start
    /\ \E c \in ColorTexts : args = <<Arg(<<"0">>, c)>>
    /\ delimeter = <<" ">>
    /\ red_size = 11 /\ yellow_size = 1
    /\ \E run \in {<<None, <<"1", " ", "1", NL>> >>,
                    <<None, <<":", NL>> >>,
                    <<Some(<<":">>), <<"1", NL>> >>,
                    <<Some(<<":">>), <<":", "1", NL>> >>} :
         skip = run[1] /\ stdin = run[2]

SpecColor == InitColor /\ [][Next]_vars

TypeOK ==
    /\ pc \in {"options", "read", "skip", "skip_pat", "field"}
    /\ result \in {"running", "Ok", "Err", "SigPipe", "UsageErr"}
    /\ i \in 0..Len(split)
    /\ mark \in 0..Len(stdout)
    /\ off \in 0..Len(stdin)

\* ------------------------------------------------- what the claims speak of

RED == <<ESC, "[", "3", "1", "m">>
GREEN == <<ESC, "[", "3", "2", "m">>
YELLOW == <<ESC, "[", "3", "3", "m">>
RESET == <<ESC, "[", "3", "9", "m">>

RECURSIVE Flatten(_)
Flatten(ss) == IF ss = <<>> THEN <<>> ELSE Head(ss) \o Flatten(Tail(ss))

Occurs(s, p) == \E k \in 1..(Len(s) + 1) : MatchAt(s, p, k)

\* The bytes written since the current line was read.
LineOutput == SubSeq(stdout, mark + 1, Len(stdout))

\* The bytes a step appends to the output.
Written == SubSeq(stdout', Len(stdout) + 1, Len(stdout'))
Appends == Len(stdout') >= Len(stdout) /\ SubSeq(stdout', 1, Len(stdout)) = stdout

\* segs is the inclusive split of s at d: the segments make up s; all but the
\* last end with d; d occurs in no segment but at its end.
IsInclusiveSplit(segs, s, d) ==
    IF d = <<>>
    THEN segs = << <<>> >> \o [k \in 1..Len(s) |-> <<s[k]>>]
    ELSE /\ Flatten(segs) = s
         /\ \A j \in 1..Len(segs) :
              /\ segs[j] # <<>>
              /\ j < Len(segs) => ends_with(segs[j], d)
              /\ \A k \in 1..(Len(segs[j]) - Len(d)) : ~MatchAt(segs[j], d, k)

\* The line after the skip, from the line as read: what follows the first
\* occurrence of the pattern.
Remainder ==
    IF ~skip.some THEN buf
    ELSE LET first == CHOOSE k \in 1..(Len(buf) + 1) :
                        MatchAt(buf, skip.pat, k)
                        /\ \A j \in 1..(k - 1) : ~MatchAt(buf, skip.pat, j)
         IN  SubSeq(buf, first + Len(skip.pat), Len(buf))

\* The bindings, in configuration order, whose index is the position.
BoundTo(fs, pos) == {k \in 1..Len(fs) : fs[k].field = pos}
FirstOf(M) == CHOOSE k \in M : \A j \in M : k <= j

\* C1: a field matched by a non-size binding is written as the binding's
\* escape sequence, the field's text exactly as the inclusive split of the
\* (post-skip) input line gives it, and the reset of the colour "default".
C1_AnsiFieldWrapped ==
    [][(/\ AtField
        /\ BoundTo(fields, i) # {}
        /\ fields[FirstOf(BoundTo(fields, i))].color.kind = "Ansi"
        /\ result' = "running")
       => /\ IsInclusiveSplit(split, Remainder, delimeter)
          /\ stdout' = stdout \o fields[FirstOf(BoundTo(fields, i))].color.ansi
                              \o split[i + 1] \o RESET]_vars

\* A second field, ending in its delimiter, has been written in a colour.
C1_Witness ==
    /\ pc = "field" /\ result = "running" /\ i = 2
    /\ BoundTo(fields, 1) # {}
    /\ fields[FirstOf(BoundTo(fields, 1))].color.kind = "Ansi"
    /\ ends_with(split[2], delimeter) /\ delimeter = <<" ">>
    /\ ends_with(stdout, split[2] \o RESET)

\* No binding's index is a split position of the current line.
NoBindingMatches ==
    \A k \in 1..Len(fields) : \A pos \in 0..(Len(split) - 1) : fields[k].field # pos

\* C2 as stated: whenever the run is through with a line none of whose split
\* positions has a binding, the output of the line is the line.
C2_Original ==
    (/\ pc # "options"
     /\ \/ pc = "read" /\ result \in {"running", "Ok"}
        \/ result = "Err"
     /\ NoBindingMatches)
    => LineOutput = buf

\* C2, amended: a line whose processing is complete (the skip pattern, if
\* one is set, occurs in it, and every write was taken by the output) and
\* none of whose split positions has a binding is written as it was read.
C2_RoundTrip ==
    (pc = "read" /\ result \in {"running", "Ok"} /\ NoBindingMatches)
    => LineOutput = buf

\* A line of two fields after a skip, with bindings none of which matches.
C2_Witness ==
    /\ pc = "read" /\ result = "running" /\ skip.some
    /\ Len(split) >= 2 /\ fields # <<>> /\ NoBindingMatches
    /\ mark > 0 /\ LineOutput = buf

\* C3: with a skip pattern set, what is written first for a line is the line
\* up to and including the FIRST occurrence of the pattern, uncoloured; the
\* fields are the inclusive split of what follows it, counted from 0.
C3_SkipFirstOccurrence ==
    (pc = "field" /\ skip.some)
    => LET n == Len(buf) - Len(rest)
           p == skip.pat
       IN  /\ n >= Len(p)
           /\ rest = SubSeq(buf, n + 1, Len(buf))
           /\ SubSeq(buf, n - Len(p) + 1, n) = p
           /\ \A k \in 1..(n - Len(p)) : ~MatchAt(buf, p, k)
           /\ Len(LineOutput) >= n
           /\ SubSeq(LineOutput, 1, n) = SubSeq(buf, 1, n)
           /\ i = 0 => Len(LineOutput) = n
           /\ IsInclusiveSplit(split, rest, delimeter)
           /\ i <= Len(split)

\* The pattern occurs twice in the line and field 0 of the remainder, which
\* has a binding, has been written.
C3_Witness ==
    /\ pc = "field" /\ skip.some /\ result = "running" /\ i >= 1
    /\ Cardinality({k \in 1..Len(buf) : MatchAt(buf, skip.pat, k)}) >= 2
    /\ BoundTo(fields, 0) # {}

\* The colour a binding gives a text: its own, or the one its size selects.
ColourOf(b, text) ==
    IF b.color.kind = "Ansi" THEN b.color.ansi
    ELSE LET s == parse_bytesize(trim(text)).val
         IN  IF s > red_size THEN RED ELSE IF s > yellow_size THEN YELLOW ELSE GREEN

\* What a field at position pos is written as under the bindings fs.
FieldOut(fs, pos, text) ==
    IF BoundTo(fs, pos) = {} THEN text
    ELSE ColourOf(fs[FirstOf(BoundTo(fs, pos))], text) \o text \o RESET

EscCount(s) == Cardinality({k \in 1..Len(s) : s[k] = ESC})

\* C5: a field takes the colour of the FIRST binding, in configuration order,
\* with its index, whatever bindings follow; it gets one colour start and one
\* reset at most; with no such binding it is written unchanged.
C5_FirstBindingWins ==
    [][(AtField /\ result' = "running")
       => /\ Appends
          /\ Written = FieldOut(fields, i, split[i + 1])
          /\ EscCount(Written) <= 2
          /\ BoundTo(fields, i) = {} => Written = split[i + 1]]_vars

\* Two bindings of different colours for position 0, whose field is written.
C5_Witness ==
    /\ pc = "field" /\ result = "running" /\ i >= 1
    /\ Len(fields) = 2 /\ fields[1].field = 0 /\ fields[2].field = 0
    /\ fields[1].color # fields[2].color
    /\ parse_bytesize(trim(split[1])).ok
    /\ parse_bytesize(trim(split[1])).val > red_size

IsNonNegative(b) == b.field >= 0
RECURSIVE FieldsOut(_, _, _)
FieldsOut(fs, segs, n) ==
    IF n = 0 THEN <<>>
    ELSE FieldsOut(fs, segs, n - 1) \o FieldOut(fs, n - 1, segs[n])

\* The lines of a text: each through its "\n", the last to the end.
RECURSIVE LinesOf(_)
LinesOf(s) ==
    IF s = <<>> THEN <<>>
    ELSE LET M == {k \in 1..Len(s) : s[k] = NL}
             n == IF M = {} THEN Len(s) ELSE FirstOf(M)
         IN  <<SubSeq(s, 1, n)>> \o LinesOf(SubSeq(s, n + 1, Len(s)))

\* The whole output of a line under the bindings fs.
LineOut(fs, line) ==
    LET cut == IF skip.some THEN find(line, skip.pat) + Len(skip.pat) - 1 ELSE 0
        segs == split_inclusive(SubSeq(line, cut + 1, Len(line)), delimeter)
    IN  SubSeq(line, 1, cut) \o FieldsOut(fs, segs, Len(segs))

RECURSIVE LinesOut(_, _)
LinesOut(fs, lines) ==
    IF lines = <<>> THEN <<>>
    ELSE LineOut(fs, Head(lines)) \o LinesOut(fs, Tail(lines))

\* The lines read before the current one.
EarlierLines == LinesOf(SubSeq(stdin, 1, off - Len(buf)))

\* What the current line has put out so far under the bindings fs.
PartialOut(fs) ==
    IF pc \in {"options", "skip"} THEN <<>>
    ELSE IF pc = "skip_pat" THEN SubSeq(buf, 1, find(buf, skip.pat) - 1)
    ELSE SubSeq(buf, 1, Len(buf) - Len(rest)) \o FieldsOut(fs, split, i)

\* C6: a binding with a negative index is accepted, and the output of the
\* run is, at every moment, that of the run without the negative bindings.
C6_NegativeNeverMatches ==
    /\ result # "UsageErr"
    /\ pc # "options" =>
         /\ Len(fields) = Len(args)
         /\ \A k \in 1..Len(args) : (args[k][1] = "-") <=> (fields[k].field < 0)
    /\ stdout = LinesOut(SelectSeq(fields, IsNonNegative), EarlierLines)
                  \o PartialOut(SelectSeq(fields, IsNonNegative))

\* "-1:red" is the first binding, a line of two fields is through.
C6_Witness ==
    /\ pc = "read" /\ result = "running" /\ Len(split) = 2 /\ i = 2
    /\ Len(fields) = 2 /\ fields[1].field = 0 - 1 /\ fields[2].field = 1
    /\ args[1] = Arg(<<"-", "1">>, T_red)

\* C7: a line without the skip pattern, or a size field that is no byte
\* count, ends the run at once with main's error: nothing of the line (skip)
\* or of the field (size) is written, and from then on nothing changes.
C7_ErrorAborts ==
    [][/\ (pc = "skip" /\ result = "running" /\ skip.some /\ ~Occurs(buf, skip.pat))
          => /\ result' = "Err" /\ stdout' = stdout /\ off' = off
             /\ Len(stdout) = mark
       /\ (/\ AtField
           /\ BoundTo(fields, i) # {}
           /\ fields[FirstOf(BoundTo(fields, i))].color.kind = "Size"
           /\ ~AllDigits(trim(split[i + 1])))
          => result' = "Err" /\ stdout' = stdout /\ off' = off
       /\ result = "Err" => UNCHANGED vars]_vars

\* The skip pattern is missing from the second line; a third is never read.
C7_Witness ==
    /\ result = "Err" /\ pc = "skip" /\ err = "skip not found"
    /\ mark > 0 /\ off < Len(stdin) /\ Len(stdout) = mark

\* C8 as stated: a write that fails because the output was closed ends the
\* run in success.
C8_Original ==
    [][(NextWrite # <<>> /\ result' # "running")
       => result' = "Ok" /\ err' = "none"]_vars

\* C8, amended: a write to a closed output ends the process silently, by
\* SIGPIPE: main returns no error and nothing more is written; the process
\* does not reach its successful return either.
C8_ClosedOutputIsSilent ==
    [][(NextWrite # <<>> /\ result' # "running")
       => result' = "SigPipe" /\ err' = "none" /\ stdout' = stdout /\ off' = off]_vars

\* The output was closed in the middle of a line.
C8_Witness ==
    /\ result = "SigPipe" /\ pc = "field" /\ i >= 1 /\ err = "none"

\* C10: when a size does not parse at field k, the output is that of the
\* earlier lines, then the skip prefix of the line, then fields 0..k-1 as
\* transformed, and nothing more; every colour written has had its reset.
C10_PartialLineAtAbort ==
    (result = "Err" /\ pc = "field")
    => /\ i < Len(split)
       /\ SubSeq(stdout, 1, mark) = LinesOut(fields, EarlierLines)
       /\ LineOutput = SubSeq(buf, 1, Len(buf) - Len(rest)) \o FieldsOut(fields, split, i)
       /\ skip.some => /\ Len(buf) - Len(rest) >= Len(skip.pat)
                       /\ ends_with(SubSeq(buf, 1, Len(buf) - Len(rest)), skip.pat)
       /\ EscCount(stdout) % 2 = 0
       /\ EscCount(stdout) > 0 => ends_with(stdout, RESET) \/
            \E k \in 1..Len(stdout) :
               /\ SubSeq(stdout, k, k + 4) = RESET
               /\ EscCount(SubSeq(stdout, k + 5, Len(stdout))) = 0

\* An earlier line, a skip prefix and a coloured field 0 are out when the
\* size of field 1 fails to parse.
C10_Witness ==
    /\ result = "Err" /\ pc = "field" /\ i = 1 /\ skip.some
    /\ mark > 0 /\ BoundTo(fields, 0) # {}

\* A step that writes a size-bound field whose trimmed text is a byte count.
SizeStep ==
    /\ AtField
    /\ BoundTo(fields, i) # {}
    /\ fields[FirstOf(BoundTo(fields, i))].color.kind = "Size"
    /\ AllDigits(trim(split[i + 1]))
    /\ result' = "running"

SizeAt == DigitsVal(trim(split[i + 1]))
ColourWritten == SubSeq(Written, 1, 5)

\* C4 as stated: red above the red threshold, else yellow above the yellow
\* one, else green, whatever the order of the thresholds; a size equal to the
\* red threshold is not red (yellow under the defaults), one byte more is
\* red, a size equal to the yellow threshold is green, 0 is green.
C4_Original ==
    [][SizeStep
       => /\ Appends
          /\ Written = ColourWritten \o split[i + 1] \o RESET
          /\ ColourWritten = IF SizeAt > red_size THEN RED
                             ELSE IF SizeAt > yellow_size THEN YELLOW ELSE GREEN
          /\ SizeAt = red_size => ColourWritten # RED
          /\ (/\ SizeAt = red_size
              /\ red_size = ByteSize_mb(DefaultRedMB)
              /\ yellow_size = ByteSize_mb(DefaultYellowMB)) => ColourWritten = YELLOW
          /\ SizeAt = red_size + 1 => ColourWritten = RED
          /\ SizeAt = yellow_size => ColourWritten = GREEN
          /\ SizeAt = 0 => ColourWritten = GREEN]_vars

\* C4, amended: as stated, but a size equal to the yellow threshold is green
\* only when that threshold does not exceed the red one; when it does, the
\* size is above the red threshold and red.
C4_SizeThresholds ==
    [][SizeStep
       => /\ Appends
          /\ Written = ColourWritten \o split[i + 1] \o RESET
          /\ ColourWritten = IF SizeAt > red_size THEN RED
                             ELSE IF SizeAt > yellow_size THEN YELLOW ELSE GREEN
          /\ SizeAt = red_size => ColourWritten # RED
          /\ (/\ SizeAt = red_size
              /\ red_size = ByteSize_mb(DefaultRedMB)
              /\ yellow_size = ByteSize_mb(DefaultYellowMB)) => ColourWritten = YELLOW
          /\ SizeAt = red_size + 1 => ColourWritten = RED
          /\ (SizeAt = yellow_size /\ yellow_size <= red_size) => ColourWritten = GREEN
          /\ (SizeAt = yellow_size /\ yellow_size > red_size) => ColourWritten = RED
          /\ SizeAt = 0 => ColourWritten = GREEN]_vars

\* Under the defaults a field of exactly 100 MB, after a skip, is out in yellow.
C4_Witness ==
    /\ pc = "field" /\ result = "running" /\ i = 1 /\ skip.some
    /\ red_size = ByteSize_mb(DefaultRedMB)
    /\ yellow_size = ByteSize_mb(DefaultYellowMB)
    /\ fields[1].field = 0 /\ fields[1].color.kind = "Size"
    /\ AllDigits(trim(split[1])) /\ DigitsVal(trim(split[1])) = red_size
    /\ ends_with(stdout, YELLOW \o split[1] \o RESET)

\* The colour text of the single binding of the colour specification.
ColourText == SubSeq(args[1], 3, Len(args[1]))
Parsed == pc # "options" \/ result = "UsageErr"
EndsClosed(c) == ends_with(c, <<")">>)
\* What stands between the opening parenthesis and the final ")".
Inside(c, head) == SubSeq(c, Len(head) + 1, Len(c) - 1)
ArgCount(c, head) ==
    IF Inside(c, head) = <<>> THEN 0 ELSE matches_count(Inside(c, head), ",") + 1
Balanced(c) ==
    EndsClosed(c) /\ matches_count(c, "(") = 1 /\ matches_count(c, ")") = 1
Malformed(c) ==
    \/ starts_with(c, T_fixed) /\ (~Balanced(c) \/ ArgCount(c, T_fixed) # 1)
    \/ starts_with(c, T_rgb) /\ (~Balanced(c) \/ ArgCount(c, T_rgb) # 3)
\* An optional "+" and one or more digits.
IsUnsigned(s) ==
    \/ AllDigits(s)
    \/ s # <<>> /\ s[1] = "+" /\ AllDigits(Tail(s))
\* The parts of a text at its commas.
Part(s, n) ==
    LET C == {0} \cup {k \in 1..Len(s) : s[k] = ","} \cup {Len(s) + 1}
        lo == CHOOSE k \in C : Cardinality({j \in C : j < k}) = n - 1
        hi == CHOOSE k \in C : Cardinality({j \in C : j < k}) = n
    IN  SubSeq(s, lo + 1, hi - 1)
Complete(f) == starts_with(f, <<ESC, "[", "3">>) /\ ends_with(f, <<"m">>)

\* C9 as stated: a fixed( or rgb( text with a wrong argument count or
\* unbalanced parentheses is UnknownColor; IntParseError comes only with a
\* well-formed text; a failure yields no colour; an Ansi result is complete.
C9_Original ==
    (Parsed /\ Len(args) = 1)
    => /\ Malformed(ColourText) => result = "UsageErr" /\ err = "UnknownColor"
       /\ err = "IntParseError" => ~Malformed(ColourText)
       /\ result = "UsageErr" => fields = <<>>
       /\ (result # "UsageErr" /\ fields[1].color.kind = "Ansi")
            => Complete(fields[1].color.ansi)

\* C9, amended: UnknownColor is the error of an rgb( text without exactly
\* two commas or without a final ")" and of a fixed( text without a final
\* ")"; IntParseError is the error of every fixed(...) text whose inside is
\* no unsigned integer (so of "fixed(1,2)", "fixed()", "fixed(1))") and of
\* every rgb(...) text of two commas one of whose three parts is none; there
\* is no other IntParseError; a failure yields no colour; an Ansi result is
\* complete.
C9_ColorParseErrors ==
    (Parsed /\ Len(args) = 1)
    => LET c == ColourText
           isFixed == starts_with(c, T_fixed)
           isRgb == starts_with(c, T_rgb)
           failed == result = "UsageErr"
       IN  /\ (isRgb /\ (matches_count(c, ",") # 2 \/ ~EndsClosed(c)))
                => failed /\ err = "UnknownColor"
           /\ (isFixed /\ ~EndsClosed(c)) => failed /\ err = "UnknownColor"
           /\ (isFixed /\ EndsClosed(c))
                => IF IsUnsigned(Inside(c, T_fixed))
                   THEN ~failed /\ fields[1].color.kind = "Ansi"
                   ELSE failed /\ err = "IntParseError"
           /\ (isRgb /\ matches_count(c, ",") = 2 /\ EndsClosed(c))
                => IF \A n \in 1..3 : IsUnsigned(Part(Inside(c, T_rgb), n))
                   THEN ~failed /\ fields[1].color.kind = "Ansi"
                   ELSE failed /\ err = "IntParseError"
           /\ err = "IntParseError" => (isFixed \/ isRgb) /\ EndsClosed(c)
           /\ failed => fields = <<>> /\ err \in {"UnknownColor", "IntParseError"}
           /\ (~failed /\ fields[1].color.kind = "Ansi")
                => Complete(fields[1].color.ansi)

\* "fixed(1,2)" was refused with IntParseError.
C9_Witness ==
    /\ result = "UsageErr" /\ err = "IntParseError" /\ fields = <<>>
    /\ args = <<Arg(<<"0">>, T_fixed \o <<"1", ",", "2", ")">>)>>

====
